---- MODULE Spec2Model ----
(***************************************************************************)
(* A model of CIFAR10_NN.py: a script that builds a three-layer classifier, *)
(* evaluates it, trains it with three fit calls, scores it on the test set, *)
(* saves and reloads its parameters and writes two JSON records.            *)
(*                                                                          *)
(* What is the script's own code is modelled statement by statement.  What  *)
(* the script delegates to torch is modelled by integer stand-ins:          *)
(*   - a tensor of per-class values is a function Classes -> Int; parameter *)
(*     values, pixel values and learning rates are counted in hundredths;   *)
(*   - a Linear layer is reduced to its bias vector (its weight matrix is   *)
(*     the identity), so every layer is num_classes wide in the arithmetic, *)
(*     while the sizes the layers were constructed with are kept as fields; *)
(*   - cross-entropy of one sample is (largest score) - (score of label);   *)
(*     its gradient with respect to the scores is                           *)
(*     onehot(arg-max) - onehot(label), back-propagated through the ReLUs;  *)
(*   - float values (losses, accuracies) are exact fractions [num, den];    *)
(*     float32 rounding is not modelled;                                    *)
(*   - one sample of the model stands for batch_size / FullBatch samples of *)
(*     the data set, so that the three loaders keep their capacity ratios.  *)
(***************************************************************************)
EXTENDS Integers, Sequences, FiniteSets, TLC

VARIABLES
    pc,            \* position of the interpreter in the script
    literal,       \* text of the last number of the metrics dict (line 213)
    cuda,          \* torch.cuda.is_available()
    rng,           \* state of torch's default random generator
    device,        \* module-level device
    model,         \* module-level model
    model2,        \* module-level model2
    train_ds,      \* samples of the training partition
    val_ds,        \* samples of the validation partition
    test_dataset,  \* samples of the test set
    train_loader,  \* module-level train_loader
    val_loader,    \* module-level val_loader
    test_loader,   \* module-level test_loader
    history,       \* module-level history
    result,        \* module-level result
    fitF,          \* frame of the running fit call
    evF,           \* frame of the running evaluate call
    fitCalls,      \* the (epochs, lr) of every fit call made so far
    files,         \* file name -> content
    writeLog,      \* names of the files written, in order
    hyper_params,  \* module-level hyper_params
    metrics,       \* module-level metrics
    fn             \* arguments and result of a direct call of accuracy or evaluate

vars == <<pc, literal, cuda, rng, device, model, model2, train_ds, val_ds,
          test_dataset, train_loader, val_loader, test_loader, history,
          result, fitF, evF, fitCalls, files, writeLog, hyper_params,
          metrics, fn>>

----------------------------------------------------------------------------
(* Program constants *)

input_size == 1024
hidden_size == 128
num_classes == 10
batch_size == 64

(* Bounds of the model *)

\* samples in a full training batch of the model
FullBatch == 2
\* images are one-hot at a class in 0..MaxFeature, labels are in 0..MaxFeature
MaxFeature == 1
\* candidate initialisations of a freshly constructed model
MaxInit == 1
\* the state torch.manual_seed(42) leaves the generator in is one of 0..MaxSeed
MaxSeed == 3
\* largest epoch count of a direct fit call
MaxEpochs == 2
\* largest number of samples handed directly to accuracy
MaxLen == 4

----------------------------------------------------------------------------
(* Tensors *)

Classes == 0..(num_classes - 1)

Zero == [c \in Classes |-> 0]

OneHot(k, v) == [c \in Classes |-> IF c = k THEN v ELSE 0]

VAdd(a, b) == [c \in Classes |-> a[c] + b[c]]

VScale(k, a) == [c \in Classes |-> k * a[c]]

\* elementwise product with the 0/1 mask of the positive entries of pre
VMask(a, pre) == [c \in Classes |-> IF pre[c] > 0 THEN a[c] ELSE 0]

relu(a) == [c \in Classes |-> IF a[c] > 0 THEN a[c] ELSE 0]

VMax(a) == CHOOSE m \in {a[c] : c \in Classes} : \A c \in Classes : a[c] <= m

\* torch.max(outputs, dim=1): the index of the first maximal value of a row
ArgMax(a) == CHOOSE k \in Classes :
                 /\ a[k] = VMax(a)
                 /\ \A c \in Classes : c < k => a[c] < a[k]

(* Fractions *)

Frac(n, d) == [num |-> n, den |-> d]

FracAdd(a, b) == Frac(a.num * b.den + b.num * a.den, a.den * b.den)

FracEq(a, b) == a.num * b.den = b.num * a.den

RECURSIVE FracSum(_)
FracSum(s) == IF s = <<>> THEN Frac(0, 1)
              ELSE FracAdd(s[1], FracSum(Tail(s)))

\* torch.stack(values).mean(): the sum of the values over their number
StackMean(values) ==
    LET t == FracSum(values) IN Frac(t.num, t.den * Len(values))

(* Exceptions: a call returns [raised, value]; raised = "" when it returns *)

Ok(v) == [raised |-> "", value |-> v]

Raise(e, v) == [raised |-> e, value |-> v]

----------------------------------------------------------------------------
(* CIFARModel *)

PAdd(a, b) == [linear1 |-> VAdd(a.linear1, b.linear1),
               linear2 |-> VAdd(a.linear2, b.linear2),
               linear3 |-> VAdd(a.linear3, b.linear3)]

PScale(k, a) == [linear1 |-> VScale(k, a.linear1),
                 linear2 |-> VScale(k, a.linear2),
                 linear3 |-> VScale(k, a.linear3)]

ZeroParams == [linear1 |-> Zero, linear2 |-> Zero, linear3 |-> Zero]

\* nn.Linear initialises its parameters from the random generator: the k-th
\* candidate favours class k - 1 in the output layer, candidate 0 is all zero
InitParams(k) ==
    [linear1 |-> Zero, linear2 |-> Zero,
     linear3 |-> IF k = 0 THEN Zero ELSE OneHot(k - 1, 10)]

\* CIFARModel.__init__: three Linear layers, created on the CPU, their
\* parameters drawn at generator state r
CIFARModel(in_size, hidden, out_size, r) ==
    [linear1 |-> <<in_size, hidden>>, linear2 |-> <<hidden, hidden>>,
     linear3 |-> <<hidden, out_size>>,
     params |-> InitParams(r % (MaxInit + 1)), grad |-> ZeroParams,
     device |-> "cpu"]

NoModel == CIFARModel(0, 0, 0, 0)

pre1(p, xb) == VAdd(xb, p.linear1)

pre2(p, xb) == VAdd(relu(pre1(p, xb)), p.linear2)

\* CIFARModel.forward on one flattened image
forward(p, xb) == VAdd(relu(pre2(p, xb)), p.linear3)

\* F.cross_entropy of one sample
SampleLoss(p, s) == LET out == forward(p, s.image) IN VMax(out) - out[s.label]

RECURSIVE SumLoss(_, _)
SumLoss(p, batch) == IF batch = <<>> THEN 0
                     ELSE SampleLoss(p, batch[1]) + SumLoss(p, Tail(batch))

\* F.cross_entropy(out, labels): the mean over the samples of the batch
cross_entropy(p, batch) ==
    Frac(SumLoss(p, batch), IF batch = <<>> THEN 1 ELSE Len(batch))

\* self(images): the rows of scores of a batch
Outputs(p, batch) == [i \in 1..Len(batch) |-> forward(p, batch[i].image)]

Labels(batch) == [i \in 1..Len(batch) |-> batch[i].label]

\* the number of rows whose arg-max is the label
Correct(outputs, labels) ==
    Cardinality({i \in 1..Len(outputs) : ArgMax(outputs[i]) = labels[i]})

\* the number of correct predictions, not divided by the batch length
accuracy_count(outputs, labels) ==
    IF Len(outputs) = 0 THEN Raise("ZeroDivisionError", Frac(0, 1))
    ELSE Ok(Frac(Correct(outputs, labels), 1))

\* accuracy(outputs, labels)
accuracy(outputs, labels) ==
    IF Len(outputs) = 0 THEN Raise("ZeroDivisionError", Frac(0, 1))
    ELSE Ok(Frac(Correct(outputs, labels), Len(outputs)))

\* CIFARModel.training_step
training_step(p, batch) == cross_entropy(p, batch)

NoResult == [val_loss |-> Frac(0, 1), val_acc |-> Frac(0, 1)]

\* CIFARModel.validation_step
validation_step(p, batch) ==
    LET acc == accuracy(Outputs(p, batch), Labels(batch))
    IN  IF acc.raised # "" THEN Raise(acc.raised, NoResult)
        ELSE Ok([val_loss |-> cross_entropy(p, batch), val_acc |-> acc.value])

\* the result of the last batch instead of the mean over the batches
validation_epoch_end_last(outputs) ==
    IF outputs = <<>> THEN Raise("RuntimeError", NoResult)
    ELSE Ok(outputs[Len(outputs)])

\* CIFARModel.validation_epoch_end
validation_epoch_end(outputs) ==
    IF outputs = <<>> THEN Raise("RuntimeError", NoResult)
    ELSE Ok([val_loss |-> StackMean([i \in 1..Len(outputs) |-> outputs[i].val_loss]),
             val_acc |-> StackMean([i \in 1..Len(outputs) |-> outputs[i].val_acc])])

\* evaluate(model, val_loader) over batches that are on the model's device
evaluate(p, batches) ==
    LET steps == [i \in 1..Len(batches) |-> validation_step(p, batches[i])]
        bad == {i \in 1..Len(batches) : steps[i].raised # ""}
    IN  IF bad # {}
        THEN steps[CHOOSE i \in bad : \A j \in bad : i <= j]
        ELSE validation_epoch_end([i \in 1..Len(batches) |-> steps[i].value])

\* the gradient loss.backward() adds for one sample
SampleGrad(p, s) ==
    LET out == forward(p, s.image)
        g3 == VAdd(OneHot(ArgMax(out), 1), OneHot(s.label, -1))
        g2 == VMask(g3, pre2(p, s.image))
        g1 == VMask(g2, pre1(p, s.image))
    IN  [linear1 |-> g1, linear2 |-> g2, linear3 |-> g3]

RECURSIVE BatchGrad(_, _)
BatchGrad(p, batch) ==
    IF batch = <<>> THEN ZeroParams
    ELSE PAdd(SampleGrad(p, batch[1]), BatchGrad(p, Tail(batch)))

\* a backward pass that also applies the gradient to the parameters
backward_inplace(m, batch) ==
    [m EXCEPT !.grad = PAdd(m.grad, BatchGrad(m.params, batch)),
              !.params = PAdd(m.params, PScale(-1, BatchGrad(m.params, batch)))]

\* loss.backward(): gradients accumulate in the parameters' .grad
backward(m, batch) == [m EXCEPT !.grad = PAdd(m.grad, BatchGrad(m.params, batch))]

\* optimizer.step() of torch.optim.SGD with learning rate lr (in hundredths)
optimizer_step(m, lr) == [m EXCEPT !.params = PAdd(m.params, PScale(-lr, m.grad))]

\* the gradients are left as they are
zero_grad_skipped(m) == m

\* optimizer.zero_grad()
zero_grad(m) == [m EXCEPT !.grad = ZeroParams]

\* model.state_dict()
state_dict(m) == m.params

\* the output layer is not copied
load_state_dict_partial(m, sd) ==
    [m EXCEPT !.params = [sd EXCEPT !.linear3 = m.params.linear3]]

\* model.load_state_dict(sd): every parameter is copied from sd
load_state_dict(m, sd) == [m EXCEPT !.params = sd]

----------------------------------------------------------------------------
(* The random generator: seeded at line 13, so every draw of the run is a  *)
(* function of the seed.  Its stream is a full-period congruence on 0..15. *)

RngNext(r) == (5 * r + 3) % 16

Rotate(s, k) == [i \in 1..Len(s) |-> s[((i - 1 + k) % Len(s)) + 1]]

Reverse(s) == [i \in 1..Len(s) |-> s[Len(s) + 1 - i]]

\* the order a RandomSampler draws from generator state r
Shuffled(s, r) ==
    IF s = <<>> THEN s
    ELSE IF (r \div Len(s)) % 2 = 0 THEN Rotate(s, r % Len(s))
    ELSE Reverse(Rotate(s, r % Len(s)))

(* Devices and loaders *)

\* get_default_device()
get_default_device(available) == IF available THEN "cuda" ELSE "cpu"

\* to_device(model, device): Module.to moves the parameters in place
to_device(m, dev) == [m EXCEPT !.device = dev]

\* DataLoader(ds, batch_size, shuffle): not wrapped, its batches are on the CPU
DataLoader(ds, bs, shuffle) ==
    [ds |-> ds, batch_size |-> bs, shuffle |-> shuffle, device |-> "none"]

\* DeviceDataLoader(dl, device)
DeviceDataLoader(dl, dev) == [dl EXCEPT !.device = dev]

\* the device of the batches a loader yields
BatchDevice(dl) == IF dl.device = "none" THEN "cpu" ELSE dl.device

\* samples of the model in a batch of bs samples of the data set
Capacity(bs) == (bs * FullBatch) \div batch_size

RECURSIVE Chunk(_, _)
Chunk(s, cap) ==
    IF s = <<>> THEN <<>>
    ELSE IF Len(s) <= cap THEN <<s>>
    ELSE <<SubSeq(s, 1, cap)>> \o Chunk(SubSeq(s, cap + 1, Len(s)), cap)

\* iter(loader): the batches of one pass over the loader, drawn at state r
Iter(dl, samples, r) ==
    Chunk(IF dl.shuffle THEN Shuffled(samples, r) ELSE samples,
          Capacity(dl.batch_size))

\* the generator after iter(loader): a pass draws its base seed from it
RngAfterIter(dl, r) == RngNext(r)

(* Data *)

Features == 0..MaxFeature

SampleAt(k) ==
    [image |-> OneHot(k % (MaxFeature + 1), 100),
     label |-> (k \div (MaxFeature + 1)) % (MaxFeature + 1)]

\* a partition of n samples of the data set on disk
Partition(seed, n) == [i \in 1..n |-> SampleAt(seed + i)]

----------------------------------------------------------------------------
(* The script *)

\* line 213 as committed, 1.6940. , and with the trailing point removed
\* ("d" is a digit)
LiteralCommitted == <<"d", ".", "d", "d", "d", "d", ".">>

LiteralRepaired == <<"d", ".", "d", "d", "d", "d">>

\* a Python float literal holds at most one point; a second point starts an
\* attribute reference, which needs a name after it
IsFloatLiteral(t) ==
    /\ Cardinality({i \in 1..Len(t) : t[i] = "."}) <= 1
    /\ \E i \in 1..Len(t) : t[i] = "d"

\* the (epochs, lr) of the fit calls at lines 162, 164 and 166
FitArgs(at) ==
    CASE at = "L162" -> [epochs |-> 5, lr |-> 50]
      [] at = "L164" -> [epochs |-> 25, lr |-> 10]
      [] at = "L166" -> [epochs |-> 15, lr |-> 5]

\* where the script continues after the fit call at a line
AfterFit(at) ==
    CASE at = "L162" -> "L164"
      [] at = "L164" -> "L166"
      [] at = "L166" -> "L168"
      [] OTHER -> "fit_done"

FileNames == {"cifar10-nn-weights.pth", "hyper_params.json", "metrics.json"}

NoLoader == DataLoader("none", 0, FALSE)

NoFit == [epochs |-> 0, lr |-> 0, epoch |-> 0, history |-> <<>>, todo |-> <<>>,
          loss |-> Frac(0, 1), steps |-> 0, ret |-> "none"]

NoEval == [model |-> "none", todo |-> <<>>, dev |-> "none", outputs |-> <<>>,
           ret |-> "none"]

NoHyper == [arch |-> <<>>, lr1 |-> 0, lr2 |-> 0, num_epochs |-> 0, batch_size |-> 0]

NoMetrics == [val_acc |-> 0, val_loss |-> 0, test_acc |-> 0, test_loss |-> 0]

NoCall == [op |-> "none", outputs |-> <<>>, labels |-> <<>>, params |-> ZeroParams,
           batches |-> <<>>, acc |-> Ok(Frac(0, 1)), res |-> Ok(NoResult)]

SamplesOf(name) ==
    CASE name = "train" -> train_ds
      [] name = "val" -> val_ds
      [] name = "test" -> test_dataset
      [] OTHER -> <<>>

ModelOf(name) == IF name = "model2" THEN model2 ELSE model

Terminated == pc \in {"done", "SyntaxError", "RuntimeError", "ZeroDivisionError"}

\* The script as committed stops in Compile: its last number has a second
\* point.  The statements are run for the text with that point removed, which
\* the design notes of the specification take to be a transcription error.
\* Whether a GPU is present is the environment's choice.
Init ==
    /\ pc = "compile"
    /\ literal \in {LiteralCommitted, LiteralRepaired}
    /\ cuda \in BOOLEAN
    /\ rng = 0
    /\ device = "none"
    /\ model = NoModel
    /\ model2 = NoModel
    /\ train_ds = <<>>
    /\ val_ds = <<>>
    /\ test_dataset = <<>>
    /\ train_loader = NoLoader
    /\ val_loader = NoLoader
    /\ test_loader = NoLoader
    /\ history = <<>>
    /\ result = NoResult
    /\ fitF = NoFit
    /\ evF = NoEval
    /\ fitCalls = <<>>
    /\ files = [n \in FileNames |-> <<>>]
    /\ writeLog = <<>>
    /\ hyper_params = NoHyper
    /\ metrics = NoMetrics
    /\ fn = NoCall

\* the interpreter compiles the whole file before it runs any statement
Compile ==
    /\ pc = "compile"
    /\ pc' = IF IsFloatLiteral(literal) THEN "L13" ELSE "SyntaxError"
    /\ UNCHANGED <<literal, cuda, rng, device, model, model2, train_ds, val_ds,
                   test_dataset, train_loader, val_loader, test_loader, history,
                   result, fitF, evF, fitCalls, files, writeLog, hyper_params,
                   metrics, fn>>

\* line 13: torch.manual_seed(42)
ManualSeed ==
    /\ pc = "L13"
    /\ rng' \in 0..MaxSeed
    /\ pc' = "L18"
    /\ UNCHANGED <<literal, cuda, device, model, model2, train_ds, val_ds,
                   test_dataset, train_loader, val_loader, test_loader, history,
                   result, fitF, evF, fitCalls, files, writeLog, hyper_params,
                   metrics, fn>>

\* the partitions random_split and the test set can hold: a training partition
\* of up to FullBatch + 1 samples, a validation and a test partition of one
\* sample or of one full batch and one sample more
Splits ==
    {[train |-> Partition(seed, nt), val |-> Partition(seed + 1, nv),
      test |-> Partition(seed + 2, ns)] :
        seed \in 0..MaxFeature, nt \in 1..(FullBatch + 1),
        nv \in {1, Capacity(batch_size * 2) + 1}, ns \in {1, Capacity(256) + 1}}

\* lines 16-29: the data sets, the split and the two loaders
LoadData ==
    /\ pc = "L18"
    /\ \E d \in Splits :
          /\ train_ds' = d.train
          /\ val_ds' = d.val
          /\ test_dataset' = d.test
    /\ rng' = RngNext(rng)
    /\ train_loader' = DataLoader("train", batch_size, TRUE)
    /\ val_loader' = DataLoader("val", batch_size * 2, FALSE)
    /\ pc' = "L88"
    /\ UNCHANGED <<literal, cuda, device, model, model2, test_loader, history,
                   result, fitF, evF, fitCalls, files, writeLog, hyper_params,
                   metrics, fn>>

\* line 88: model = CIFARModel(input_size, hidden_size, num_classes)
L88 ==
    /\ pc = "L88"
    /\ model' = CIFARModel(input_size, hidden_size, num_classes, rng)
    /\ rng' = RngNext(rng)
    /\ pc' = "L101"
    /\ UNCHANGED <<literal, cuda, device, model2, train_ds, val_ds, test_dataset,
                   train_loader, val_loader, test_loader, history, result, fitF,
                   evF, fitCalls, files, writeLog, hyper_params, metrics, fn>>

\* line 101: device = get_default_device()
L101 ==
    /\ pc = "L101"
    /\ device' = get_default_device(cuda)
    /\ pc' = "L129"
    /\ UNCHANGED <<literal, cuda, rng, model, model2, train_ds, val_ds,
                   test_dataset, train_loader, val_loader, test_loader, history,
                   result, fitF, evF, fitCalls, files, writeLog, hyper_params,
                   metrics, fn>>

\* lines 129-130: both loaders are wrapped
L129 ==
    /\ pc = "L129"
    /\ train_loader' = DeviceDataLoader(train_loader, device)
    /\ val_loader' = DeviceDataLoader(val_loader, device)
    /\ pc' = "L155"
    /\ UNCHANGED <<literal, cuda, rng, device, model, model2, train_ds, val_ds,
                   test_dataset, test_loader, history, result, fitF, evF,
                   fitCalls, files, writeLog, hyper_params, metrics, fn>>

\* lines 155-156: a new model, moved to the device
L155 ==
    /\ pc = "L155"
    /\ model' = to_device(CIFARModel(input_size, hidden_size, num_classes, rng),
                          device)
    /\ rng' = RngNext(rng)
    /\ pc' = "L159"
    /\ UNCHANGED <<literal, cuda, device, model2, train_ds, val_ds, test_dataset,
                   train_loader, val_loader, test_loader, history, result, fitF,
                   evF, fitCalls, files, writeLog, hyper_params, metrics, fn>>

\* evaluate(m, dl) is entered: line 134 starts to iterate over the loader
EvaluateCall(m, dl, ret) ==
    /\ evF' = [model |-> m, todo |-> Iter(dl, SamplesOf(dl.ds), rng),
               dev |-> BatchDevice(dl), outputs |-> <<>>, ret |-> ret]
    /\ rng' = RngAfterIter(dl, rng)
    /\ pc' = "evaluate"

\* line 159: history = [evaluate(model, val_loader)], the call
L159 ==
    /\ pc = "L159"
    /\ EvaluateCall("model", val_loader, "L159")
    /\ UNCHANGED <<literal, cuda, device, model, model2, train_ds, val_ds,
                   test_dataset, train_loader, val_loader, test_loader, history,
                   result, fitF, fitCalls, files, writeLog, hyper_params,
                   metrics, fn>>

\* line 134, one batch: model.validation_step(batch); a batch on another
\* device than the parameters makes the first Linear layer raise
ValidationStep ==
    /\ pc = "evaluate"
    /\ evF.todo # <<>>
    /\ LET out == validation_step(ModelOf(evF.model).params, Head(evF.todo))
       IN  IF evF.dev # ModelOf(evF.model).device
           THEN pc' = "RuntimeError" /\ evF' = evF
           ELSE IF out.raised # ""
           THEN pc' = out.raised /\ evF' = evF
           ELSE /\ pc' = "evaluate"
                /\ evF' = [evF EXCEPT !.todo = Tail(@),
                                      !.outputs = Append(@, out.value)]
    /\ UNCHANGED <<literal, cuda, rng, device, model, model2, train_ds, val_ds,
                   test_dataset, train_loader, val_loader, test_loader, history,
                   result, fitF, fitCalls, files, writeLog, hyper_params,
                   metrics, fn>>

\* history = [result] at line 159
HistoryStart(r) == <<r>>

\* history.append(result) at line 150
HistoryAppend(h, r) == Append(h, r)

\* history = fit(...): the earlier entries are dropped
HistoryReplace(h, more) == more

\* history += fit(...) at lines 162-166
HistoryExtend(h, more) == h \o more

\* line 135, and the statement that made the call takes the value returned
EvaluateReturn ==
    /\ pc = "evaluate"
    /\ evF.todo = <<>>
    /\ LET res == validation_epoch_end(evF.outputs)
       IN  IF res.raised # ""
           THEN pc' = res.raised /\ UNCHANGED <<history, result, fitF>>
           ELSE CASE evF.ret \in {"L159", "h_baseline"} ->
                       /\ history' = HistoryStart(res.value)
                       /\ pc' = IF evF.ret = "L159" THEN "L162" ELSE "h_fit"
                       /\ UNCHANGED <<result, fitF>>
                  [] evF.ret = "fit" ->
                       \* lines 149-150: epoch_end prints, history.append
                       /\ fitF' = [fitF EXCEPT
                                     !.history = HistoryAppend(@, res.value),
                                     !.epoch = @ + 1]
                       /\ pc' = "fit_epoch"
                       /\ UNCHANGED <<history, result>>
                  [] evF.ret = "L185" ->
                       /\ result' = res.value
                       /\ pc' = "L190"
                       /\ UNCHANGED <<history, fitF>>
                  [] evF.ret = "L198" ->
                       /\ result' = res.value
                       /\ pc' = "L201"
                       /\ UNCHANGED <<history, fitF>>
    /\ evF' = NoEval
    /\ UNCHANGED <<literal, cuda, rng, device, model, model2, train_ds, val_ds,
                   test_dataset, train_loader, val_loader, test_loader, fitCalls,
                   files, writeLog, hyper_params, metrics, fn>>

\* range(epochs + 1): one epoch too many
LoopContinuesInclusive(epoch, epochs) == epoch <= epochs

\* line 140: for epoch in range(epochs) goes round once more
LoopContinues(epoch, epochs) == epoch < epochs

\* lines 138-139: fit is entered with a new optimizer and an empty history
FitFrame(epochs, lr, ret) ==
    [epochs |-> epochs, lr |-> lr, epoch |-> 0, history |-> <<>>, todo |-> <<>>,
     loss |-> Frac(0, 1), steps |-> 0, ret |-> ret]

\* lines 162, 164, 166: history += fit(...), the call
FitCall ==
    /\ pc \in {"L162", "L164", "L166"}
    /\ fitF' = FitFrame(FitArgs(pc).epochs, FitArgs(pc).lr, pc)
    /\ fitCalls' = Append(fitCalls, FitArgs(pc))
    /\ pc' = "fit_epoch"
    /\ UNCHANGED <<literal, cuda, rng, device, model, model2, train_ds, val_ds,
                   test_dataset, train_loader, val_loader, test_loader, history,
                   result, evF, files, writeLog, hyper_params, metrics, fn>>

\* lines 140 and 142: an epoch starts to iterate over train_loader
FitEpoch ==
    /\ pc = "fit_epoch"
    /\ LoopContinues(fitF.epoch, fitF.epochs)
    /\ fitF' = [fitF EXCEPT
                   !.todo = Iter(train_loader, SamplesOf(train_loader.ds), rng)]
    /\ rng' = RngAfterIter(train_loader, rng)
    /\ pc' = "train"
    /\ UNCHANGED <<literal, cuda, device, model, model2, train_ds, val_ds,
                   test_dataset, train_loader, val_loader, test_loader, history,
                   result, evF, fitCalls, files, writeLog, hyper_params, metrics,
                   fn>>

\* line 143: loss = model.training_step(batch)
TrainingStep ==
    /\ pc = "train"
    /\ fitF.todo # <<>>
    /\ IF BatchDevice(train_loader) # model.device
       THEN pc' = "RuntimeError" /\ fitF' = fitF
       ELSE /\ fitF' = [fitF EXCEPT
                          !.loss = training_step(model.params, Head(fitF.todo))]
            /\ pc' = "backward"
    /\ UNCHANGED <<literal, cuda, rng, device, model, model2, train_ds, val_ds,
                   test_dataset, train_loader, val_loader, test_loader, history,
                   result, evF, fitCalls, files, writeLog, hyper_params, metrics,
                   fn>>

\* line 144: loss.backward()
Backward ==
    /\ pc = "backward"
    /\ model' = backward(model, Head(fitF.todo))
    /\ pc' = "step"
    /\ UNCHANGED <<literal, cuda, rng, device, model2, train_ds, val_ds,
                   test_dataset, train_loader, val_loader, test_loader, history,
                   result, fitF, evF, fitCalls, files, writeLog, hyper_params,
                   metrics, fn>>

\* line 145: optimizer.step()
OptimizerStep ==
    /\ pc = "step"
    /\ model' = optimizer_step(model, fitF.lr)
    /\ fitF' = [fitF EXCEPT !.steps = @ + 1]
    /\ pc' = "zero_grad"
    /\ UNCHANGED <<literal, cuda, rng, device, model2, train_ds, val_ds,
                   test_dataset, train_loader, val_loader, test_loader, history,
                   result, evF, fitCalls, files, writeLog, hyper_params, metrics,
                   fn>>

\* line 146: optimizer.zero_grad(), and the loop takes the next batch
ZeroGrad ==
    /\ pc = "zero_grad"
    /\ model' = zero_grad(model)
    /\ fitF' = [fitF EXCEPT !.todo = Tail(@)]
    /\ pc' = "train"
    /\ UNCHANGED <<literal, cuda, rng, device, model2, train_ds, val_ds,
                   test_dataset, train_loader, val_loader, test_loader, history,
                   result, evF, fitCalls, files, writeLog, hyper_params, metrics,
                   fn>>

\* line 148: result = evaluate(model, val_loader), the call
FitValidate ==
    /\ pc = "train"
    /\ fitF.todo = <<>>
    /\ EvaluateCall("model", val_loader, "fit")
    /\ UNCHANGED <<literal, cuda, device, model, model2, train_ds, val_ds,
                   test_dataset, train_loader, val_loader, test_loader, history,
                   result, fitF, fitCalls, files, writeLog, hyper_params,
                   metrics, fn>>

\* line 151: return history, and the caller's history += takes it
FitReturn ==
    /\ pc = "fit_epoch"
    /\ ~LoopContinues(fitF.epoch, fitF.epochs)
    /\ history' = HistoryExtend(history, fitF.history)
    /\ pc' = AfterFit(fitF.ret)
    /\ UNCHANGED <<literal, cuda, rng, device, model, model2, train_ds, val_ds,
                   test_dataset, train_loader, val_loader, test_loader, result,
                   fitF, evF, fitCalls, files, writeLog, hyper_params, metrics,
                   fn>>

\* lines 168-181: the two curves are plotted and shown
Plot ==
    /\ pc = "L168"
    /\ pc' = "L184"
    /\ UNCHANGED <<literal, cuda, rng, device, model, model2, train_ds, val_ds,
                   test_dataset, train_loader, val_loader, test_loader, history,
                   result, fitF, evF, fitCalls, files, writeLog, hyper_params,
                   metrics, fn>>

\* lines 184 and 197: test_loader = DataLoader(test_dataset, batch_size=256)
TestLoader ==
    /\ pc \in {"L184", "L197"}
    /\ test_loader' = DataLoader("test", 256, FALSE)
    /\ pc' = IF pc = "L184" THEN "L185" ELSE "L198"
    /\ UNCHANGED <<literal, cuda, rng, device, model, model2, train_ds, val_ds,
                   test_dataset, train_loader, val_loader, history, result, fitF,
                   evF, fitCalls, files, writeLog, hyper_params, metrics, fn>>

\* line 185: result = evaluate(model, test_loader), the call
L185 ==
    /\ pc = "L185"
    /\ EvaluateCall("model", test_loader, "L185")
    /\ UNCHANGED <<literal, cuda, device, model, model2, train_ds, val_ds,
                   test_dataset, train_loader, val_loader, test_loader, history,
                   result, fitF, fitCalls, files, writeLog, hyper_params,
                   metrics, fn>>

\* open(name, 'w') and a write: the file holds exactly the new content
WriteFile(name, content) ==
    /\ files' = [files EXCEPT ![name] = <<content>>]
    /\ writeLog' = Append(writeLog, name)

\* line 190: torch.save(model.state_dict(), 'cifar10-nn-weights.pth')
L190 ==
    /\ pc = "L190"
    /\ WriteFile("cifar10-nn-weights.pth", state_dict(model))
    /\ pc' = "L193"
    /\ UNCHANGED <<literal, cuda, rng, device, model, model2, train_ds, val_ds,
                   test_dataset, train_loader, val_loader, test_loader, history,
                   result, fitF, evF, fitCalls, hyper_params, metrics, fn>>

\* line 193: model2 = CIFARModel(input_size, hidden_size, num_classes)
L193 ==
    /\ pc = "L193"
    /\ model2' = CIFARModel(input_size, hidden_size, num_classes, rng)
    /\ rng' = RngNext(rng)
    /\ pc' = "L194"
    /\ UNCHANGED <<literal, cuda, device, model, train_ds, val_ds, test_dataset,
                   train_loader, val_loader, test_loader, history, result, fitF,
                   evF, fitCalls, files, writeLog, hyper_params, metrics, fn>>

\* line 194: model2.load_state_dict(torch.load('cifar10-nn-weights.pth'))
L194 ==
    /\ pc = "L194"
    /\ model2' = load_state_dict(model2, files["cifar10-nn-weights.pth"][1])
    /\ pc' = "L197"
    /\ UNCHANGED <<literal, cuda, rng, device, model, train_ds, val_ds,
                   test_dataset, train_loader, val_loader, test_loader, history,
                   result, fitF, evF, fitCalls, files, writeLog, hyper_params,
                   metrics, fn>>

\* line 198: result = evaluate(model2, test_loader), the call
L198 ==
    /\ pc = "L198"
    /\ EvaluateCall("model2", test_loader, "L198")
    /\ UNCHANGED <<literal, cuda, device, model, model2, train_ds, val_ds,
                   test_dataset, train_loader, val_loader, test_loader, history,
                   result, fitF, fitCalls, files, writeLog, hyper_params,
                   metrics, fn>>

\* lines 201-207; arch is the text 'Linear(784, 128)+Linear(128,128)+Linear(128,10)',
\* kept as the sizes it names; the learning rates are in hundredths
HyperParams ==
    [arch |-> <<(<<784, 128>>), (<<128, 128>>), (<<128, 10>>)>>,
     lr1 |-> 50, lr2 |-> 10, num_epochs |-> 45, batch_size |-> 64]

\* lines 209-214, in ten-thousandths
Metrics ==
    [val_acc |-> 4151, val_loss |-> 16812, test_acc |-> 4128, test_loss |-> 16940]

\* lines 201-214: the two dicts
L201 ==
    /\ pc = "L201"
    /\ hyper_params' = HyperParams
    /\ metrics' = Metrics
    /\ pc' = "L218"
    /\ UNCHANGED <<literal, cuda, rng, device, model, model2, train_ds, val_ds,
                   test_dataset, train_loader, val_loader, test_loader, history,
                   result, fitF, evF, fitCalls, files, writeLog, fn>>

\* lines 218-219: json.dump(hyper_params, fp)
L218 ==
    /\ pc = "L218"
    /\ WriteFile("hyper_params.json", hyper_params)
    /\ pc' = "L221"
    /\ UNCHANGED <<literal, cuda, rng, device, model, model2, train_ds, val_ds,
                   test_dataset, train_loader, val_loader, test_loader, history,
                   result, fitF, evF, fitCalls, hyper_params, metrics, fn>>

\* lines 221-222: json.dump(metrics, fp), the last statement
L221 ==
    /\ pc = "L221"
    /\ WriteFile("metrics.json", metrics)
    /\ pc' = "done"
    /\ UNCHANGED <<literal, cuda, rng, device, model, model2, train_ds, val_ds,
                   test_dataset, train_loader, val_loader, test_loader, history,
                   result, fitF, evF, fitCalls, hyper_params, metrics, fn>>

Next ==
    \/ Compile \/ ManualSeed \/ LoadData \/ L88 \/ L101 \/ L129 \/ L155 \/ L159
    \/ ValidationStep \/ EvaluateReturn
    \/ FitCall \/ FitEpoch \/ TrainingStep \/ Backward \/ OptimizerStep
    \/ ZeroGrad \/ FitValidate \/ FitReturn
    \/ Plot \/ TestLoader \/ L185 \/ L190 \/ L193 \/ L194 \/ L198
    \/ L201 \/ L218 \/ L221

Spec == Init /\ [][Next]_vars

----------------------------------------------------------------------------
(* fit called directly: the state the script is in at line 159, then         *)
(* history = [evaluate(model, val_loader)] + fit(epochs, lr, model, ...)     *)
(* for any epoch count in 0..MaxEpochs and any of the script's rates.        *)

LearningRates == {FitArgs(at).lr : at \in {"L162", "L164", "L166"}}

InitFit ==
    /\ pc = "h_baseline"
    /\ literal = LiteralRepaired
    /\ cuda \in BOOLEAN
    /\ rng \in 0..MaxSeed
    /\ device = get_default_device(cuda)
    /\ model = to_device(CIFARModel(input_size, hidden_size, num_classes, rng),
                         device)
    /\ model2 = NoModel
    /\ \E d \in Splits :
          /\ train_ds = d.train
          /\ val_ds = d.val
          /\ test_dataset = d.test
    /\ train_loader = DeviceDataLoader(DataLoader("train", batch_size, TRUE), device)
    /\ val_loader = DeviceDataLoader(DataLoader("val", batch_size * 2, FALSE), device)
    /\ test_loader = NoLoader
    /\ history = <<>>
    /\ result = NoResult
    /\ fitF = NoFit
    /\ evF = NoEval
    /\ fitCalls = <<>>
    /\ files = [n \in FileNames |-> <<>>]
    /\ writeLog = <<>>
    /\ hyper_params = NoHyper
    /\ metrics = NoMetrics
    /\ fn = NoCall

\* history = [evaluate(model, val_loader)], the call
HBaseline ==
    /\ pc = "h_baseline"
    /\ EvaluateCall("model", val_loader, "h_baseline")
    /\ UNCHANGED <<literal, cuda, device, model, model2, train_ds, val_ds,
                   test_dataset, train_loader, val_loader, test_loader, history,
                   result, fitF, fitCalls, files, writeLog, hyper_params,
                   metrics, fn>>

\* history += fit(epochs, lr, model, train_loader, val_loader), the call
HFit ==
    /\ pc = "h_fit"
    /\ \E e \in 0..MaxEpochs, lr \in LearningRates :
          /\ fitF' = FitFrame(e, lr, "h_fit")
          /\ fitCalls' = Append(fitCalls, [epochs |-> e, lr |-> lr])
    /\ pc' = "fit_epoch"
    /\ UNCHANGED <<literal, cuda, rng, device, model, model2, train_ds, val_ds,
                   test_dataset, train_loader, val_loader, test_loader, history,
                   result, evF, files, writeLog, hyper_params, metrics, fn>>

NextFit ==
    \/ HBaseline \/ ValidationStep \/ EvaluateReturn \/ HFit
    \/ FitEpoch \/ TrainingStep \/ Backward \/ OptimizerStep
    \/ ZeroGrad \/ FitValidate \/ FitReturn

SpecFit == InitFit /\ [][NextFit]_vars

----------------------------------------------------------------------------
(* accuracy and evaluate called directly, on arguments from bounded sets *)

\* rows of scores: the first or the last class ahead of the others, or all
\* classes level
ScoreRows == {OneHot(0, 100), OneHot(MaxFeature, 100), Zero}

SampleSet == {[image |-> OneHot(c, 100), label |-> l] : c \in Features, l \in Features}

InitFn ==
    /\ pc = "call"
    /\ literal = LiteralRepaired
    /\ cuda = FALSE
    /\ rng = 0
    /\ device = "cpu"
    /\ model = NoModel
    /\ model2 = NoModel
    /\ train_ds = <<>>
    /\ val_ds = <<>>
    /\ test_dataset = <<>>
    /\ train_loader = NoLoader
    /\ val_loader = NoLoader
    /\ test_loader = NoLoader
    /\ history = <<>>
    /\ result = NoResult
    /\ fitF = NoFit
    /\ evF = NoEval
    /\ fitCalls = <<>>
    /\ files = [n \in FileNames |-> <<>>]
    /\ writeLog = <<>>
    /\ hyper_params = NoHyper
    /\ metrics = NoMetrics
    /\ fn = NoCall

\* accuracy(outputs, labels) on two tensors of equal length
CallAccuracy ==
    /\ pc = "call"
    /\ \E n \in 0..MaxLen :
          \E outputs \in [1..n -> ScoreRows], labels \in [1..n -> Features] :
             fn' = [NoCall EXCEPT !.op = "accuracy", !.outputs = outputs,
                                  !.labels = labels,
                                  !.acc = accuracy(outputs, labels)]
    /\ pc' = "returned"
    /\ UNCHANGED <<literal, cuda, rng, device, model, model2, train_ds, val_ds,
                   test_dataset, train_loader, val_loader, test_loader, history,
                   result, fitF, evF, fitCalls, files, writeLog, hyper_params,
                   metrics>>

\* evaluate(model, loader) on the batches of a loader of capacity cap over
\* n samples: every batch is full except possibly the last
CallEvaluate ==
    /\ pc = "call"
    /\ \E n \in 0..(FullBatch + 1), cap \in 1..FullBatch, k \in 0..MaxInit :
          \E samples \in [1..n -> SampleSet] :
             fn' = [NoCall EXCEPT !.op = "evaluate", !.params = InitParams(k),
                                  !.batches = Chunk(samples, cap),
                                  !.res = evaluate(InitParams(k),
                                                   Chunk(samples, cap))]
    /\ pc' = "returned"
    /\ UNCHANGED <<literal, cuda, rng, device, model, model2, train_ds, val_ds,
                   test_dataset, train_loader, val_loader, test_loader, history,
                   result, fitF, evF, fitCalls, files, writeLog, hyper_params,
                   metrics>>

NextFn == CallAccuracy \/ CallEvaluate

SpecFn == InitFn /\ [][NextFn]_vars

----------------------------------------------------------------------------
(* Properties *)

SetupPcs == {"compile", "SyntaxError", "L13", "L18", "L88", "L101", "L129",
             "L155", "L159"}

\* the interpreter is inside a fit call
InFit == \/ pc \in {"fit_epoch", "train", "backward", "step", "zero_grad"}
         \/ pc = "evaluate" /\ evF.ret = "fit"

\* the baseline evaluation of line 159 has returned
PastBaseline == pc \notin SetupPcs /\ ~(pc = "evaluate" /\ evF.ret = "L159")

\* the history so far: the caller's list, then the list of the running fit call
Combined == IF InFit THEN history \o fitF.history ELSE history

RECURSIVE SumEpochs(_)
SumEpochs(calls) == IF calls = <<>> THEN 0
                    ELSE calls[1].epochs + SumEpochs(Tail(calls))

\* the epochs completed by all fit calls so far
EpochsCompleted ==
    IF InFit THEN SumEpochs(SubSeq(fitCalls, 1, Len(fitCalls) - 1)) + fitF.epoch
    ELSE SumEpochs(fitCalls)

IsPrefix(a, b) == Len(a) <= Len(b) /\ SubSeq(b, 1, Len(a)) = a

ValBatches == Chunk(val_ds, Capacity(val_loader.batch_size))

TestBatches == Chunk(test_dataset, Capacity(test_loader.batch_size))

FreshParams == {InitParams(k) : k \in 0..MaxInit}

Checkpoint == "cifar10-nn-weights.pth"

\* C1: a run terminates having written the checkpoint, the hyperparameter
\* record and the metrics record once each, in that order, after the three fit
\* calls and the test-set evaluation.
C1_RunWritesAll ==
    Terminated =>
        /\ pc = "done"
        /\ writeLog = <<Checkpoint, "hyper_params.json", "metrics.json">>
        /\ Len(fitCalls) = 3

\* C2: the history is the baseline followed by one entry per completed epoch,
\* each the validation result of the parameters at the end of that epoch, in
\* call and epoch order; after the three fit calls it has 46 entries; an entry
\* once appended never changes.
C2_History ==
    /\ [](PastBaseline => Len(Combined) = 1 + EpochsCompleted)
    /\ [](pc = "L168" =>
            /\ Len(history) = 1 + 5 + 25 + 15
            /\ fitCalls = <<FitArgs("L162"), FitArgs("L164"), FitArgs("L166")>>)
    /\ [][/\ IsPrefix(Combined, Combined')
          /\ Len(Combined') <= Len(Combined) + 1
          /\ Len(Combined') = Len(Combined) + 1 =>
                Combined'[Len(Combined')] = evaluate(model.params, ValBatches).value
         ]_vars

C2_Witness ==
    /\ pc = "L168"
    /\ Len(history) = 46
    /\ history[1] # history[46]

\* C3: once the model is constructed its parameters change only in an
\* optimizer step of a fit call: not in evaluate, not between fit calls.
C3_ParamsFrame ==
    [][(pc \notin SetupPcs /\ model'.params # model.params) =>
          (pc = "step" /\ InFit)]_vars

C3_Witness ==
    /\ pc = "L190"
    /\ model.params \notin FreshParams
    /\ Len(fitCalls) = 3

\* C4: fit with epochs = 0 takes no optimizer step, leaves the parameters
\* as they are and returns an empty history, so [baseline] + fit(0, ...) is
\* the baseline entry alone.
C4_ZeroEpochs ==
    /\ []((pc = "fit_done" /\ fitF.epochs = 0) =>
            /\ fitF.steps = 0
            /\ fitF.history = <<>>
            /\ history = <<evaluate(model.params, ValBatches).value>>)
    /\ [][fitF'.epochs = 0 => model'.params = model.params]_vars

C4_Witness ==
    /\ pc = "fit_done"
    /\ fitF.epochs = 0
    /\ Len(history) = 1

\* the number of batches of one pass over train_loader
NumTrainBatches ==
    LET cap == Capacity(train_loader.batch_size)
    IN  (Len(train_ds) + cap - 1) \div cap

\* the batches of the running epoch that have been taken from the loader
BatchesTaken == NumTrainBatches - Len(fitF.todo)

\* C5: every training batch goes through loss, backward, one optimizer step
\* and the clearing of the gradients; fit(E, lr) over N batches takes E*N
\* steps; the gradients are zero at the start of every batch and when fit
\* returns; an epoch is validated only after its N training batches.
C5_TrainingPhase ==
    /\ pc = "train" =>
          /\ model.grad = ZeroParams
          /\ fitF.steps = fitF.epoch * NumTrainBatches + BatchesTaken
    /\ pc = "backward" =>
          /\ model.grad = ZeroParams
          /\ fitF.loss = cross_entropy(model.params, Head(fitF.todo))
          /\ fitF.steps = fitF.epoch * NumTrainBatches + BatchesTaken
    /\ pc = "step" =>
          /\ model.grad = BatchGrad(model.params, Head(fitF.todo))
          /\ fitF.steps = fitF.epoch * NumTrainBatches + BatchesTaken
    /\ pc = "zero_grad" =>
          fitF.steps = fitF.epoch * NumTrainBatches + BatchesTaken + 1
    /\ (pc = "evaluate" /\ evF.ret = "fit") =>
          /\ fitF.todo = <<>>
          /\ fitF.steps = (fitF.epoch + 1) * NumTrainBatches
    /\ pc = "fit_done" =>
          /\ model.grad = ZeroParams
          /\ fitF.steps = fitF.epochs * NumTrainBatches

C5_Witness ==
    /\ pc = "fit_done"
    /\ fitF.epochs = 2
    /\ NumTrainBatches = 2
    /\ fitF.steps = 4
    /\ model.params \notin FreshParams

\* k is the first index at which the row is largest
IsArgMax(row, k) ==
    /\ \A c \in Classes : row[c] <= row[k]
    /\ \A c \in Classes : c < k => row[c] < row[k]

\* the samples whose arg-max score is their label
Hits(outputs, labels) ==
    Cardinality({i \in 1..Len(outputs) : IsArgMax(outputs[i], labels[i])})

AccuracyIsFraction ==
    /\ fn.acc.raised = ""
    /\ fn.acc.value.den > 0
    /\ fn.acc.value.num * Len(fn.outputs)
         = Hits(fn.outputs, fn.labels) * fn.acc.value.den
    /\ 0 <= fn.acc.value.num
    /\ fn.acc.value.num <= fn.acc.value.den
    /\ (Len(fn.outputs) = 4 /\ Hits(fn.outputs, fn.labels) = 3) =>
          4 * fn.acc.value.num = 3 * fn.acc.value.den

\* C6 as stated: for all batches of scores and labels of equal length,
\* accuracy returns the number of arg-max hits over the batch length, a value
\* in [0, 1], and 0.75 for 3 hits of 4.
C6_AllBatches == fn.op = "accuracy" => AccuracyIsFraction

\* C6, amended: for all non-empty batches of scores and labels of equal
\* length, accuracy returns the number of arg-max hits over the batch length,
\* a value in [0, 1], and 0.75 for 3 hits of 4.
C6_NonEmpty ==
    (fn.op = "accuracy" /\ Len(fn.outputs) > 0) => AccuracyIsFraction

C6_Witness ==
    /\ fn.op = "accuracy"
    /\ Len(fn.outputs) = 4
    /\ Hits(fn.outputs, fn.labels) = 3
    /\ fn.acc = Ok(Frac(3, 4))

BatchLosses ==
    [i \in 1..Len(fn.batches) |-> cross_entropy(fn.params, fn.batches[i])]

BatchAccs ==
    [i \in 1..Len(fn.batches) |->
        Frac(Hits(Outputs(fn.params, fn.batches[i]), Labels(fn.batches[i])),
             Len(fn.batches[i]))]

\* n times the value is the sum of the per-batch values
IsMeanOf(value, perBatch) ==
    FracEq(Frac(value.num * Len(perBatch), value.den), FracSum(perBatch))

\* C7: evaluate over a non-empty sequence of batches returns the arithmetic
\* means of the per-batch losses and accuracies, each batch counted once
\* whatever its size.
C7_BatchMean ==
    (fn.op = "evaluate" /\ fn.batches # <<>>) =>
        /\ fn.res.raised = ""
        /\ IsMeanOf(fn.res.value.val_loss, BatchLosses)
        /\ IsMeanOf(fn.res.value.val_acc, BatchAccs)

RECURSIVE Flatten(_)
Flatten(batches) == IF batches = <<>> THEN <<>>
                    ELSE batches[1] \o Flatten(Tail(batches))

\* a smaller last batch, and a mean over the batches that is not the mean
\* over the samples
C7_Witness ==
    /\ fn.op = "evaluate"
    /\ Len(fn.batches) = 2
    /\ Len(fn.batches[2]) < Len(fn.batches[1])
    /\ fn.res.raised = ""
    /\ ~FracEq(fn.res.value.val_acc,
               Frac(Hits(Outputs(fn.params, Flatten(fn.batches)),
                         Labels(Flatten(fn.batches))),
                    Len(Flatten(fn.batches))))

\* the reloaded model exists: line 194 has run
Reloaded == \/ pc \in {"L197", "L198", "L201", "L218", "L221", "done"}
            \/ pc = "evaluate" /\ evF.ret = "L198"

\* C8: after save and load the fresh model holds the saved parameters, and
\* its test-set result is the result the original model had on the same
\* batches.
C8_RoundTrip ==
    /\ [](Reloaded =>
            /\ model2.params = model.params
            /\ files[Checkpoint] = <<model.params>>)
    /\ [](pc = "L201" => result = evaluate(model.params, TestBatches).value)
    /\ [][(pc = "evaluate" /\ evF.ret = "L198" /\ pc' = "L201") =>
             result' = result]_vars

C8_Witness ==
    /\ pc = "L201"
    /\ model2.params \notin FreshParams
    /\ model2.params = model.params

\* C9: every batch handed to a model is on the device of the model's
\* parameters.
C9_SameDevice ==
    /\ (pc = "evaluate" /\ evF.todo # <<>>) =>
          evF.dev = ModelOf(evF.model).device
    /\ (pc = "train" /\ fitF.todo # <<>>) =>
          BatchDevice(train_loader) = model.device

\* C10: the hyperparameter record agrees with the run: the epoch count, the
\* batch size, every learning rate used and the layer sizes.
C10_RecordAgrees ==
    pc \in {"L218", "L221", "done"} =>
        /\ hyper_params.num_epochs = SumEpochs(fitCalls)
        /\ hyper_params.batch_size = train_loader.batch_size
        /\ \A i \in 1..Len(fitCalls) :
              fitCalls[i].lr \in {hyper_params.lr1, hyper_params.lr2}
        /\ hyper_params.arch = <<model.linear1, model.linear2, model.linear3>>

====
